---- MODULE Spec2Model ----
(***************************************************************************)
(* A model of the command-line scripts of Zenith_AI (src/concepts):        *)
(*   tokens_and_tokenization.py  token counting, no network                *)
(*   top_p.py, temperature.py    sampling-parameter sweeps                 *)
(*   few_shot_prompting.py       few-shot message construction             *)
(* Every script is one process; pc is the position in its main().          *)
(* Text is a sequence of one-character strings.  Floats are fixed-point    *)
(* integers in tenths (10 is 1.0), with NaN as a value of its own.         *)
(***************************************************************************)
EXTENDS Integers, Sequences, FiniteSets, TLC

VARIABLES
    script,       \* which program this process runs
    pc,           \* position in the program
    args,         \* the parsed command line (argparse namespace)
    env,          \* what the process finds around it: files, packages, environment
    exit_status,  \* Running while the process runs, then its exit status
    stdout,       \* the lines printed to standard output
    stderr,       \* the messages printed to standard error
    body,         \* tokens script: the text to count
    n_tokens,     \* tokens script: the value count_tokens returned
    calls,        \* tokens script: the invocations of count_tokens, in order
    ret,          \* direct call of a function: what it returned or raised
    client,       \* API scripts: whether OpenAI(api_key=...) was constructed
    p_vals,       \* sweep scripts: the values to sweep over
    vi,           \* sweep scripts: index of the current sweep value
    si,           \* sweep scripts: index of the current sample (range(args.n))
    messages,     \* API scripts: the chat message list
    examples,     \* few-shot script: the example pairs
    requests      \* API scripts: the chat.completions.create calls, in order

vars == <<script, pc, args, env, exit_status, stdout, stderr, body, n_tokens,
          calls, ret, client, p_vals, vi, si, messages, examples, requests>>

----------------------------------------------------------------------------
(* Bounds of the model *)

MaxTextLen == 12
MaxFileLen == 3
MaxParts == 2

----------------------------------------------------------------------------
(* Python values *)

\* exit_status while the process runs; <<n>> once it has exited with status n
Running == <<>>

\* Optional[T]: None, or a value
None == [some |-> FALSE, val |-> <<>>]
Some(v) == [some |-> TRUE, val |-> v]
NoPath == [some |-> FALSE, val |-> ""]

\* truth value of an Optional[str] held as characters / as a path name
TruthyText(o) == o.some /\ o.val # <<>>
TruthyPath(o) == o.some /\ o.val # ""

Max(a, b) == IF a >= b THEN a ELSE b

RECURSIVE Concat(_)
Concat(parts) ==
    IF parts = <<>> THEN <<>> ELSE Head(parts) \o Concat(Tail(parts))

\* sequences over S of length 0..n
SeqsUpTo(S, n) == UNION {[1..k -> S] : k \in 0..n}

----------------------------------------------------------------------------
(* tokens_and_tokenization.py: get_encoding_name *)

UpperLetters ==
    <<"A","B","C","D","E","F","G","H","I","J","K","L","M",
      "N","O","P","Q","R","S","T","U","V","W","X","Y","Z">>

LowerLetters ==
    <<"a","b","c","d","e","f","g","h","i","j","k","l","m",
      "n","o","p","q","r","s","t","u","v","w","x","y","z">>

\* str.lower() on one ASCII character
LowerChar(c) ==
    IF \E i \in 1..Len(UpperLetters) : UpperLetters[i] = c
    THEN LowerLetters[CHOOSE i \in 1..Len(UpperLetters) : UpperLetters[i] = c]
    ELSE c

lower(s) == [i \in 1..Len(s) |-> LowerChar(s[i])]

\* k in m, for strings
Contains(m, k) ==
    \E i \in 0..(Len(m) - Len(k)) : \A j \in 1..Len(k) : m[i + j] = k[j]

KnownSubstrings ==
    { <<"g","p","t","-","4">>, <<"g","p","t","-","3",".","5">>,
      <<"m","i","n","i">>, <<"o","1">>, <<"o","m","n","i">> }

\* a plausible slip: the unknown-model branch looks the name up and raises KeyError
get_encoding_name_KeyError(model) ==
    LET m == lower(model) IN
    IF \E k \in KnownSubstrings : Contains(m, k)
    THEN [kind |-> "return", enc |-> "cl100k_base"]
    ELSE [kind |-> "raise", enc |-> "KeyError"]

\* a plausible slip: the Omni encoding of the docstring is returned for the known
\* names, and the name is matched as written, without lower()
get_encoding_name_CaseSensitive(model) ==
    IF \E k \in KnownSubstrings : Contains(model, k)
    THEN [kind |-> "return", enc |-> "o200k_base"]
    ELSE [kind |-> "return", enc |-> "cl100k_base"]

get_encoding_name(model) ==
    LET m == lower(model) IN
    IF \E k \in KnownSubstrings : Contains(m, k)
    THEN [kind |-> "return", enc |-> "cl100k_base"]
    ELSE [kind |-> "return", enc |-> "cl100k_base"]

----------------------------------------------------------------------------
(* tokens_and_tokenization.py: count_tokens *)

\* How the optional tiktoken package behaves in this environment.
TiktokenModes == {"ok", "ImportError", "get_encoding_error", "encode_error"}

\* len(enc.encode(text)): a byte-pair encoding yields at least one token for a
\* non-empty text and at most one token per character.
ExactCounts(text) == IF text = <<>> THEN {0} ELSE 1..Len(text)

\* lines 47-50, the body of the try block
TryExact(text, model, tk) ==
    IF tk.mode = "ImportError" THEN [kind |-> "raise", n |-> 0]
    ELSE LET enc_name == get_encoding_name(model) IN
         IF enc_name.kind = "raise" THEN [kind |-> "raise", n |-> 0]
         ELSE IF tk.mode = "get_encoding_error" THEN [kind |-> "raise", n |-> 0]
         ELSE IF tk.mode = "encode_error" THEN [kind |-> "raise", n |-> 0]
         ELSE [kind |-> "return", n |-> tk.ntok]

\* a plausible slip: the heuristic without its floor of 1
Heuristic_NoFloor(text) == Len(text) \div 4

\* a plausible slip: % typed for //
Heuristic_Mod(text) == Max(1, Len(text) % 4)

\* a plausible slip: rounding up instead of down
Heuristic_RoundUp(text) == Max(1, (Len(text) + 3) \div 4)

\* line 52
Heuristic(text) == Max(1, Len(text) \div 4)

\* a plausible slip: only ImportError is caught, other failures propagate
count_tokens_ImportErrorOnly(text, model, tk) ==
    LET r == TryExact(text, model, tk) IN
    IF r.kind = "raise" /\ tk.mode = "ImportError"
    THEN [kind |-> "return", n |-> Heuristic(text)]
    ELSE r

count_tokens(text, model, tk) ==
    LET r == TryExact(text, model, tk) IN
    IF r.kind = "raise"
    THEN [kind |-> "return", n |-> Heuristic(text)]
    ELSE r

----------------------------------------------------------------------------
(* tokens_and_tokenization.py: load_text and main *)

Undecodable == "\\xff"
Bytes == {"a", Undecodable}

\* bytes.decode("utf-8", errors="ignore")
Decode(bs) == SelectSeq(bs, LAMBDA b : b # Undecodable)

\* a plausible slip: inline text is preferred to the file
load_text_TextFirst(file, text, fs) ==
    IF TruthyText(text)
    THEN [kind |-> "return", val |-> text.val]
    ELSE IF TruthyPath(file)
    THEN IF fs.kind = "missing"
         THEN [kind |-> "SystemExit", val |-> <<>>]
         ELSE IF fs.kind = "dir"
         THEN [kind |-> "OSError", val |-> <<>>]
         ELSE [kind |-> "return", val |-> Decode(fs.content)]
    ELSE [kind |-> "return", val |-> <<>>]

\* load_text: the text, or SystemExit / an OSError from read_text
load_text(file, text, fs) ==
    IF TruthyPath(file)
    THEN IF fs.kind = "missing"
         THEN [kind |-> "SystemExit", val |-> <<>>]
         ELSE IF fs.kind = "dir"
         THEN [kind |-> "OSError", val |-> <<>>]
         ELSE [kind |-> "return", val |-> Decode(fs.content)]
    ELSE [kind |-> "return", val |-> IF TruthyText(text) THEN text.val ELSE <<>>]

Texts == {[i \in 1..n |-> "a"] : n \in 0..MaxTextLen}

TextArgs == {None} \cup {Some(t) : t \in Texts}

FileArgs == {NoPath, [some |-> TRUE, val |-> ""], [some |-> TRUE, val |-> "notes.txt"]}

NoFile == [kind |-> "missing", content |-> <<>>]

FileStates ==
    {NoFile, [kind |-> "dir", content |-> <<>>]}
    \cup {[kind |-> "file", content |-> c] : c \in SeqsUpTo(Bytes, MaxFileLen)}

ScriptModels ==
    { <<"g","p","t","-","4","o","-","m","i","n","i">>,
      <<"G","P","T","-","4">>,
      <<"x">> }

ShowSamples == {-1, 0, 2}

Idle ==
    /\ body = <<>> /\ n_tokens = 0 /\ calls = <<>>
    /\ ret = [kind |-> "none"]
    /\ client = FALSE /\ p_vals = <<>> /\ vi = 0 /\ si = 0
    /\ messages = <<>> /\ examples = <<>> /\ requests = <<>>
    /\ exit_status = Running /\ stdout = <<>> /\ stderr = <<>>

InitTokensMain ==
    /\ script = "tokens"
    /\ pc = "load_text"
    /\ \E text \in TextArgs, file \in FileArgs, model \in ScriptModels,
          show \in ShowSamples :
          args = [text |-> text, file |-> file, model |-> model, show_sample |-> show]
    /\ \E tk \in TiktokenModes, f \in FileStates :
          /\ (~TruthyPath(args.file)) => f = NoFile
          /\ env = [tiktoken |-> tk, fs |-> f, sdk |-> FALSE, api_key |-> NoPath]
    /\ Idle

Exit(status, err) ==
    /\ exit_status' = <<status>>
    /\ stderr' = IF err = "" THEN stderr ELSE Append(stderr, err)
    /\ pc' = "exited"

\* main, line 75
T_LoadText ==
    /\ script = "tokens" /\ pc = "load_text"
    /\ LET r == load_text(args.file, args.text, env.fs) IN
       IF r.kind = "SystemExit" THEN
          /\ Exit(1, "File not found")
          /\ UNCHANGED body
       ELSE IF r.kind = "OSError" THEN
          /\ Exit(1, "Traceback")
          /\ UNCHANGED body
       ELSE
          /\ body' = r.val
          /\ pc' = "check_body"
          /\ UNCHANGED <<exit_status, stderr>>
    /\ UNCHANGED <<script, args, env, stdout, n_tokens, calls, ret, client,
                   p_vals, vi, si, messages, examples, requests>>

\* a plausible slip: "body is None" in place of "not body"; load_text returns a str
BodyMissing_IsNone(b) == FALSE

\* main, line 76: not body
BodyMissing(b) == b = <<>>

\* main, lines 76-77
T_CheckBody ==
    /\ script = "tokens" /\ pc = "check_body"
    /\ IF BodyMissing(body)
       THEN Exit(1, "Provide --text or --file")
       ELSE pc' = "count_tokens" /\ UNCHANGED <<exit_status, stderr>>
    /\ UNCHANGED <<script, args, env, stdout, body, n_tokens, calls, ret, client,
                   p_vals, vi, si, messages, examples, requests>>

\* main, line 79
T_CountTokens ==
    /\ script = "tokens" /\ pc = "count_tokens"
    /\ \E n \in ExactCounts(body) :
          LET r == count_tokens(body, args.model, [mode |-> env.tiktoken, ntok |-> n]) IN
          /\ calls' = Append(calls, [text |-> body, model |-> args.model])
          /\ IF r.kind = "raise"
             THEN /\ Exit(1, "Traceback")
                  /\ UNCHANGED n_tokens
             ELSE /\ n_tokens' = r.n
                  /\ pc' = "show_sample"
                  /\ UNCHANGED <<exit_status, stderr>>
    /\ UNCHANGED <<script, args, env, stdout, body, ret, client,
                   p_vals, vi, si, messages, examples, requests>>

\* main, lines 81-85
T_ShowSample ==
    /\ script = "tokens" /\ pc = "show_sample"
    /\ stdout' = IF args.show_sample > 0
                 THEN stdout \o << [label |-> "=== Sample ===", n |-> 0],
                                   [label |-> "sample",
                                    n |-> IF Len(body) < args.show_sample
                                          THEN Len(body) ELSE args.show_sample],
                                   [label |-> "==============", n |-> 0] >>
                 ELSE stdout
    /\ pc' = "report"
    /\ UNCHANGED <<script, args, env, exit_status, stderr, body, n_tokens, calls, ret,
                   client, p_vals, vi, si, messages, examples, requests>>

\* main, lines 87-89, and the return of main
T_Report ==
    /\ script = "tokens" /\ pc = "report"
    /\ stdout' = stdout \o << [label |-> "Model:", n |-> Len(args.model)],
                              [label |-> "Characters:", n |-> Len(body)],
                              [label |-> "Approx tokens:", n |-> n_tokens] >>
    /\ Exit(0, "")
    /\ UNCHANGED <<script, args, env, body, n_tokens, calls, ret,
                   client, p_vals, vi, si, messages, examples, requests>>

----------------------------------------------------------------------------
(* Direct calls of the two functions of tokens_and_tokenization.py *)

NameChunks ==
    { <<"g","p","t","-","4">>, <<"G","P","T","-","4">>, <<"g","p","t","-","3",".","5">>,
      <<"M","i","n","i">>, <<"o">>, <<"O">>, <<"1">>, <<"m","n","i">>, <<"x">>,
      <<"c","l","a","u","d","e">> }

ModelNames == {Concat(ps) : ps \in SeqsUpTo(NameChunks, MaxParts)}

InitCall ==
    /\ script \in {"call count_tokens", "call get_encoding_name"}
    /\ pc = "call"
    /\ \E text \in Texts, model \in ModelNames :
          /\ script = "call get_encoding_name" => text = <<>>
          /\ args = [text |-> Some(text), file |-> NoPath, model |-> model,
                     show_sample |-> 0]
    /\ \E tk \in TiktokenModes :
          /\ script = "call get_encoding_name" => tk = "ok"
          /\ env = [tiktoken |-> tk, fs |-> NoFile, sdk |-> FALSE, api_key |-> NoPath]
    /\ Idle

\* count_tokens(text, model), lines 41-52
Call_count_tokens ==
    /\ script = "call count_tokens" /\ pc = "call"
    /\ \E n \in ExactCounts(args.text.val) :
          LET r == count_tokens(args.text.val, args.model,
                                [mode |-> env.tiktoken, ntok |-> n]) IN
          /\ ret' = [kind |-> r.kind, n |-> r.n, enc |-> ""]
          /\ pc' = IF r.kind = "raise" THEN "raised" ELSE "returned"
    /\ calls' = Append(calls, [text |-> args.text.val, model |-> args.model])
    /\ UNCHANGED <<script, args, env, exit_status, stdout, stderr, body, n_tokens,
                   client, p_vals, vi, si, messages, examples, requests>>

\* get_encoding_name(model), lines 25-38
Call_get_encoding_name ==
    /\ script = "call get_encoding_name" /\ pc = "call"
    /\ LET r == get_encoding_name(args.model) IN
          /\ ret' = [kind |-> r.kind, n |-> 0, enc |-> r.enc]
          /\ pc' = IF r.kind = "raise" THEN "raised" ELSE "returned"
    /\ UNCHANGED <<script, args, env, exit_status, stdout, stderr, body, n_tokens,
                   calls, client, p_vals, vi, si, messages, examples, requests>>

\* the other case of an ASCII letter
SwapCaseChar(c) ==
    IF \E i \in 1..Len(UpperLetters) : UpperLetters[i] = c
    THEN LowerLetters[CHOOSE i \in 1..Len(UpperLetters) : UpperLetters[i] = c]
    ELSE IF \E i \in 1..Len(LowerLetters) : LowerLetters[i] = c
    THEN UpperLetters[CHOOSE i \in 1..Len(LowerLetters) : LowerLetters[i] = c]
    ELSE c

\* the name with the case of the characters at positions a..b changed
SwapCase(s, a, b) ==
    [i \in 1..Len(s) |-> IF a <= i /\ i <= b THEN SwapCaseChar(s[i]) ELSE s[i]]

CaseVariants(s) == {SwapCase(s, a, b) : a \in 1..Len(s), b \in 1..Len(s)}

\* two calls of the same function in one process
InitCallTwice ==
    /\ script \in {"call count_tokens twice", "call get_encoding_name twice"}
    /\ pc = "call"
    /\ \/ /\ script = "call get_encoding_name twice"
          /\ \E model \in ModelNames \ {<<>>} : \E model2 \in CaseVariants(model) :
                args = [text |-> Some(<<>>), text2 |-> Some(<<>>), file |-> NoPath,
                        model |-> model, model2 |-> model2, show_sample |-> 0]
          /\ env = [tiktoken |-> "ok", fs |-> NoFile, sdk |-> FALSE, api_key |-> NoPath]
       \/ /\ script = "call count_tokens twice"
          /\ \E text \in Texts, text2 \in Texts, model \in ScriptModels :
                args = [text |-> Some(text), text2 |-> Some(text2), file |-> NoPath,
                        model |-> model, model2 |-> model, show_sample |-> 0]
          /\ \E tk \in TiktokenModes :
                env = [tiktoken |-> tk, fs |-> NoFile, sdk |-> FALSE, api_key |-> NoPath]
    /\ Idle

\* get_encoding_name(model) and get_encoding_name(model2), lines 25-38
Call_get_encoding_name_twice ==
    /\ script = "call get_encoding_name twice" /\ pc = "call"
    /\ LET r == get_encoding_name(args.model)
           r2 == get_encoding_name(args.model2)
       IN /\ ret' = [kind |-> r.kind, n |-> 0, enc |-> r.enc,
                     kind2 |-> r2.kind, n2 |-> 0, enc2 |-> r2.enc]
          /\ pc' = IF r.kind = "raise" \/ r2.kind = "raise" THEN "raised" ELSE "returned"
    /\ UNCHANGED <<script, args, env, exit_status, stdout, stderr, body, n_tokens,
                   calls, client, p_vals, vi, si, messages, examples, requests>>

\* count_tokens(text, model) and count_tokens(text2, model), lines 41-52
Call_count_tokens_twice ==
    /\ script = "call count_tokens twice" /\ pc = "call"
    /\ \E n \in ExactCounts(args.text.val), n2 \in ExactCounts(args.text2.val) :
          LET r == count_tokens(args.text.val, args.model,
                                [mode |-> env.tiktoken, ntok |-> n])
              r2 == count_tokens(args.text2.val, args.model2,
                                 [mode |-> env.tiktoken, ntok |-> n2])
          IN /\ ret' = [kind |-> r.kind, n |-> r.n, enc |-> "",
                        kind2 |-> r2.kind, n2 |-> r2.n, enc2 |-> ""]
             /\ pc' = IF r.kind = "raise" \/ r2.kind = "raise"
                      THEN "raised" ELSE "returned"
    /\ calls' = calls \o << [text |-> args.text.val, model |-> args.model],
                            [text |-> args.text2.val, model |-> args.model2] >>
    /\ UNCHANGED <<script, args, env, exit_status, stdout, stderr, body, n_tokens,
                   client, p_vals, vi, si, messages, examples, requests>>

InitTokens == InitTokensMain \/ InitCall \/ InitCallTwice

NextTokens ==
    \/ T_LoadText
    \/ T_CheckBody
    \/ T_CountTokens
    \/ T_ShowSample
    \/ T_Report
    \/ Call_count_tokens
    \/ Call_get_encoding_name
    \/ Call_count_tokens_twice
    \/ Call_get_encoding_name_twice

SpecTokens == InitTokens /\ [][NextTokens]_vars

----------------------------------------------------------------------------
(* Floats, and float(s) *)

F(n) == [nan |-> FALSE, t |-> n]
NaN == [nan |-> TRUE, t |-> 0]

\* a <= b on floats: every comparison with NaN is false
Leq(a, b) == ~a.nan /\ ~b.nan /\ a.t <= b.t

Digits == {"0", "1", "2", "3", "4", "5", "6", "7", "8", "9"}

DigitValue(c) ==
    CASE c = "0" -> 0 [] c = "1" -> 1 [] c = "2" -> 2 [] c = "3" -> 3 [] c = "4" -> 4
      [] c = "5" -> 5 [] c = "6" -> 6 [] c = "7" -> 7 [] c = "8" -> 8 [] OTHER -> 9

\* float(s) for the numerals "d", "d.d", with an optional sign, and "nan";
\* ValueError for anything else the sweep strings of this model hold
ParseUnsigned(s) ==
    IF Len(s) = 1 /\ s[1] \in Digits
    THEN [kind |-> "return", val |-> F(10 * DigitValue(s[1]))]
    ELSE IF Len(s) = 3 /\ s[1] \in Digits /\ s[2] = "." /\ s[3] \in Digits
    THEN [kind |-> "return", val |-> F(10 * DigitValue(s[1]) + DigitValue(s[3]))]
    ELSE [kind |-> "ValueError", val |-> NaN]

ParseFloat(s) ==
    IF s = <<"n", "a", "n">> THEN [kind |-> "return", val |-> NaN]
    ELSE IF s # <<>> /\ s[1] = "-"
    THEN LET r == ParseUnsigned(Tail(s)) IN
         IF r.kind = "return" THEN [kind |-> "return", val |-> F(0 - r.val.t)] ELSE r
    ELSE ParseUnsigned(s)

\* str.split(sep) for a one-character separator
RECURSIVE Split(_, _)
Split(s, sep) ==
    IF \E i \in 1..Len(s) : s[i] = sep
    THEN LET i == CHOOSE k \in 1..Len(s) :
                     s[k] = sep /\ \A j \in 1..(k - 1) : s[j] # sep
         IN <<SubSeq(s, 1, i - 1)>> \o Split(SubSeq(s, i + 1, Len(s)), sep)
    ELSE <<s>>

\* str.strip() of blanks
RECURSIVE Strip(_)
Strip(s) ==
    IF s # <<>> /\ s[1] = " " THEN Strip(Tail(s))
    ELSE IF s # <<>> /\ s[Len(s)] = " " THEN Strip(SubSeq(s, 1, Len(s) - 1))
    ELSE s

\* ",".join(chunks)
RECURSIVE Join(_)
Join(chunks) ==
    IF Len(chunks) = 1 THEN chunks[1]
    ELSE chunks[1] \o <<",">> \o Join(Tail(chunks))

----------------------------------------------------------------------------
(* top_p.py and temperature.py: parse_sweep *)

\* the body of the for loop of top_p.py's parse_sweep, over the chunks left
RECURSIVE parse_sweep_loop(_, _)
parse_sweep_loop(chunks, vals) ==
    IF chunks = <<>>
    THEN IF vals = <<>>
         THEN [kind |-> "SystemExit", vals |-> <<>>]
         ELSE [kind |-> "return", vals |-> vals]
    ELSE LET s == Strip(Head(chunks)) IN
         IF s = <<>> THEN parse_sweep_loop(Tail(chunks), vals)
         ELSE LET r == ParseFloat(s) IN
              IF r.kind = "ValueError" THEN [kind |-> "SystemExit", vals |-> <<>>]
              ELSE IF ~(Leq(F(0), r.val) /\ Leq(r.val, F(10)))
              THEN [kind |-> "SystemExit", vals |-> <<>>]
              ELSE parse_sweep_loop(Tail(chunks), Append(vals, r.val))

\* top_p.py
parse_sweep(sweep_str) == parse_sweep_loop(Split(sweep_str, ","), <<>>)

\* the body of the for loop of temperature.py's parse_sweep
RECURSIVE temperature_parse_sweep_loop(_, _)
temperature_parse_sweep_loop(chunks, vals) ==
    IF chunks = <<>>
    THEN IF vals = <<>>
         THEN [kind |-> "SystemExit", vals |-> <<>>]
         ELSE [kind |-> "return", vals |-> vals]
    ELSE LET s == Strip(Head(chunks)) IN
         IF s = <<>> THEN temperature_parse_sweep_loop(Tail(chunks), vals)
         ELSE LET r == ParseFloat(s) IN
              IF r.kind = "ValueError" THEN [kind |-> "SystemExit", vals |-> <<>>]
              ELSE temperature_parse_sweep_loop(Tail(chunks), Append(vals, r.val))

\* temperature.py
temperature_parse_sweep(sweep_str) ==
    temperature_parse_sweep_loop(Split(sweep_str, ","), <<>>)

----------------------------------------------------------------------------
(* The prelude every API script shares: SDK import, API key, client *)

ApiScripts ==
    {"top_p", "temperature", "few_shot", "zero_shot", "dynamic", "stop_sequences"}
SweepScripts == {"top_p", "temperature"}
OneRequestScripts == {"zero_shot", "dynamic", "stop_sequences"}

ApiKeys == {NoPath, [some |-> TRUE, val |-> ""], [some |-> TRUE, val |-> "sk-test"]}

\* the environments of an API script
ApiEnvs ==
    {[tiktoken |-> "ok", fs |-> NoFile, sdk |-> sdk, api_key |-> k] :
        sdk \in BOOLEAN, k \in ApiKeys}

\* main: try: from openai import OpenAI
A_ImportSDK ==
    /\ script \in ApiScripts /\ pc = "import_sdk"
    /\ IF env.sdk
       THEN pc' = "api_key" /\ UNCHANGED <<exit_status, stderr>>
       ELSE Exit(1, "Error: openai package not found. Install with: pip install openai")
    /\ UNCHANGED <<script, args, env, stdout, body, n_tokens, calls, ret, client,
                   p_vals, vi, si, messages, examples, requests>>

\* the statement of main that follows client = OpenAI(api_key=api_key)
AfterClient ==
    CASE script \in SweepScripts -> "parse_sweep"
      [] script = "few_shot" -> "load_examples"
      [] script = "dynamic" -> "build_prompt"
      [] OTHER -> "build_messages"

\* a plausible slip: "api_key is None" in place of "not api_key"
A_ApiKey_IsNone ==
    /\ script \in ApiScripts /\ pc = "api_key"
    /\ IF env.api_key.some
       THEN /\ client' = TRUE
            /\ pc' = AfterClient
            /\ UNCHANGED <<exit_status, stderr>>
       ELSE /\ Exit(1, "Error: Please set OPENAI_API_KEY in your environment.")
            /\ UNCHANGED client
    /\ UNCHANGED <<script, args, env, stdout, body, n_tokens, calls, ret,
                   p_vals, vi, si, messages, examples, requests>>

\* main: api_key = os.getenv("OPENAI_API_KEY") ... client = OpenAI(api_key=api_key)
A_ApiKey ==
    /\ script \in ApiScripts /\ pc = "api_key"
    /\ IF TruthyPath(env.api_key)
       THEN /\ client' = TRUE
            /\ pc' = AfterClient
            /\ UNCHANGED <<exit_status, stderr>>
       ELSE /\ Exit(1, "Error: Please set OPENAI_API_KEY in your environment.")
            /\ UNCHANGED client
    /\ UNCHANGED <<script, args, env, stdout, body, n_tokens, calls, ret,
                   p_vals, vi, si, messages, examples, requests>>

----------------------------------------------------------------------------
(* top_p.py and temperature.py: main *)

MaxSweep == 2
MaxN == 2

Chars(str) ==
    CASE str = "" -> <<>>
      [] str = " " -> <<" ">>
      [] str = "abc" -> <<"a", "b", "c">>
      [] str = "1.0" -> <<"1", ".", "0">>
      [] str = " 0.3 " -> <<" ", "0", ".", "3", " ">>
      [] str = "1.5" -> <<"1", ".", "5">>
      [] str = "-0.1" -> <<"-", "0", ".", "1">>
      [] str = "nan" -> <<"n", "a", "n">>

SweepChunks == {Chars(c) : c \in {"", " ", "abc", "1.0", " 0.3 ", "1.5", "-0.1", "nan"}}

SweepStrings == {Join(cs) : cs \in (SeqsUpTo(SweepChunks, MaxSweep) \ {<<>>})}

SweepArgs == {None} \cup {Some(str) : str \in SweepStrings}

FloatArgs == {F(10), F(7), F(0), F(15), F(-1), NaN}

Prompts == {"Write a haiku", "List three uses for a paperclip"}

InitSweep ==
    /\ script \in SweepScripts
    /\ pc = "import_sdk"
    /\ \E sweep \in SweepArgs, single \in FloatArgs, other \in {F(7), F(2)},
          n \in 0..MaxN, prompt \in Prompts :
          /\ script = "temperature" => other = F(7)
          /\ args = [prompt |-> prompt, model |-> "gpt-4o-mini", sweep |-> sweep, n |-> n,
                     top_p |-> IF script = "top_p" THEN single ELSE F(10),
                     temperature |-> IF script = "top_p" THEN other ELSE single]
    /\ env \in ApiEnvs
    /\ Idle

\* top_p.py line 107, temperature.py line 96
S_ParseSweep ==
    /\ script \in SweepScripts /\ pc = "parse_sweep"
    /\ LET r == IF TruthyText(args.sweep)
                THEN IF script = "top_p"
                     THEN parse_sweep(args.sweep.val)
                     ELSE temperature_parse_sweep(args.sweep.val)
                ELSE [kind |-> "return",
                      vals |-> IF script = "top_p" THEN <<args.top_p>>
                               ELSE <<args.temperature>>]
       IN IF r.kind = "SystemExit"
          THEN Exit(1, "SystemExit from parse_sweep") /\ UNCHANGED p_vals
          ELSE /\ p_vals' = r.vals
               /\ pc' = "build_messages"
               /\ UNCHANGED <<exit_status, stderr>>
    /\ UNCHANGED <<script, args, env, stdout, body, n_tokens, calls, ret, client,
                   vi, si, messages, examples, requests>>

SystemMessage == [role |-> "system", content |-> "You are a helpful, concise assistant."]

\* top_p.py lines 109-112, temperature.py lines 98-101
S_BuildMessages ==
    /\ script \in SweepScripts /\ pc = "build_messages"
    /\ messages' = <<SystemMessage, [role |-> "user", content |-> args.prompt]>>
    /\ pc' = "for_value"
    /\ UNCHANGED <<script, args, env, exit_status, stdout, stderr, body, n_tokens, calls,
                   ret, client, p_vals, vi, si, examples, requests>>

\* for p_val in p_vals: print the header (top_p.py 114-115, temperature.py 103-104);
\* main returns when the values are exhausted
S_NextValue ==
    /\ script \in SweepScripts /\ pc = "for_value"
    /\ IF vi < Len(p_vals)
       THEN /\ vi' = vi + 1
            /\ si' = 0
            /\ stdout' = Append(stdout, [label |-> "header", val |-> p_vals[vi + 1]])
            /\ pc' = "for_sample"
            /\ UNCHANGED <<exit_status, stderr>>
       ELSE /\ Exit(0, "")
            /\ UNCHANGED <<vi, si, stdout>>
    /\ UNCHANGED <<script, args, env, body, n_tokens, calls, ret, client,
                   p_vals, messages, examples, requests>>

\* the keyword arguments of client.chat.completions.create
\* (top_p.py 118-123, temperature.py 107-111)
CreateArgs ==
    IF script = "top_p"
    THEN [model |-> args.model, messages |-> messages,
          temperature |-> <<args.temperature>>, top_p |-> <<p_vals[vi]>>]
    ELSE [model |-> args.model, messages |-> messages,
          temperature |-> <<p_vals[vi]>>, top_p |-> <<>>]

\* for i in range(args.n): the create call is made (top_p.py 116-123)
S_NextSample ==
    /\ script \in SweepScripts /\ pc = "for_sample"
    /\ IF si < args.n
       THEN /\ requests' = Append(requests,
                  [kwargs |-> CreateArgs, value |-> vi, sample |-> si,
                   outcome |-> "pending"])
            /\ pc' = "create"
       ELSE /\ pc' = "for_value"
            /\ UNCHANGED requests
    /\ UNCHANGED <<script, args, env, exit_status, stdout, stderr, body, n_tokens, calls,
                   ret, client, p_vals, vi, si, messages, examples>>

SetOutcome(reqs, o) == [reqs EXCEPT ![Len(reqs)].outcome = o]

SamplePrints(content) ==
    IF args.n > 1
    THEN << [label |-> "-- Sample --", val |-> si + 1],
            [label |-> "content", val |-> content],
            [label |-> "", val |-> 0] >>
    ELSE << [label |-> "content", val |-> content] >>

\* a plausible slip: the reply is appended to the conversation
S_RequestReturns_AppendReply ==
    /\ script \in SweepScripts /\ pc = "create"
    /\ requests' = SetOutcome(requests, "ok")
    /\ stdout' = stdout \o SamplePrints("reply")
    /\ messages' = Append(messages, [role |-> "assistant", content |-> "reply"])
    /\ si' = si + 1
    /\ pc' = "for_sample"
    /\ UNCHANGED <<script, args, env, exit_status, stderr, body, n_tokens, calls,
                   ret, client, p_vals, vi, examples>>

\* the create call returns; the content is printed (top_p.py 128-133)
S_RequestReturns ==
    /\ script \in SweepScripts /\ pc = "create"
    /\ requests' = SetOutcome(requests, "ok")
    /\ stdout' = stdout \o SamplePrints("reply")
    /\ si' = si + 1
    /\ pc' = "for_sample"
    /\ UNCHANGED <<script, args, env, exit_status, stderr, body, n_tokens, calls,
                   ret, client, p_vals, vi, messages, examples>>

\* a plausible slip: the failure is reported and the loop goes on
S_RequestRaises_Continue ==
    /\ script \in SweepScripts /\ pc = "create"
    /\ requests' = SetOutcome(requests, "raised")
    /\ stderr' = Append(stderr, "Request failed")
    /\ si' = si + 1
    /\ pc' = "for_sample"
    /\ UNCHANGED <<script, args, env, exit_status, stdout, body, n_tokens, calls,
                   ret, client, p_vals, vi, messages, examples>>

\* the create call raises (top_p.py 124-126)
S_RequestRaises ==
    /\ script \in SweepScripts /\ pc = "create"
    /\ requests' = SetOutcome(requests, "raised")
    /\ Exit(2, "Request failed")
    /\ UNCHANGED <<script, args, env, stdout, body, n_tokens, calls,
                   ret, client, p_vals, vi, si, messages, examples>>

NextSweep ==
    \/ A_ImportSDK
    \/ A_ApiKey
    \/ S_ParseSweep
    \/ S_BuildMessages
    \/ S_NextValue
    \/ S_NextSample
    \/ S_RequestReturns
    \/ S_RequestRaises

SpecSweep == InitSweep /\ [][NextSweep]_vars

----------------------------------------------------------------------------
(* few_shot_prompting.py *)

MaxLines == 2

\* default_examples(), lines 33-57 (the dash and the apostrophe of the source's
\* second and third example are written in ASCII here)
default_examples ==
    << [user |-> <<"Instruction: Generate a concise email subject (<=8 words).\nInput: The team offsite is next Friday; please fill out the dietary form by Wednesday.">>,
        assistant |-> <<"Team offsite: fill dietary form by Wed">>],
       [user |-> <<"Instruction: Generate a concise email subject (<=8 words).\nInput: Thanks for your purchase - your package ships tomorrow with tracking.">>,
        assistant |-> <<"Your order ships tomorrow (tracking inside)">>],
       [user |-> <<"Instruction: Generate a concise email subject (<=8 words).\nInput: Quick reminder: book your 1:1s for next week.">>,
        assistant |-> <<"Reminder: book next week's 1:1s">>] >>

\* The lines of a JSONL file.  A line is blank, not JSON, a JSON value that is
\* no object, or an object with some of the four keys; the value of key k in a
\* line with id n is the string JsonValue(k, n).
JsonKeys == {"user", "assistant", "input", "output"}

JsonValue(k, n) ==
    CASE k = "user" /\ n = 1 -> "user text 1"
      [] k = "user" -> "user text 2"
      [] k = "assistant" /\ n = 1 -> "assistant text 1"
      [] k = "assistant" -> "assistant text 2"
      [] k = "input" /\ n = 1 -> "input text 1"
      [] k = "input" -> "input text 2"
      [] k = "output" /\ n = 1 -> "output text 1"
      [] OTHER -> "output text 2"

KeySets ==
    { {}, {"user", "assistant"}, {"input", "output"}, {"user", "input", "output"},
      JsonKeys }

JsonLines ==
    {[kind |-> k, keys |-> {}, id |-> 1] : k \in {"blank", "invalid", "scalar"}}
    \cup {[kind |-> "object", keys |-> ks, id |-> n] : ks \in KeySets, n \in 1..2}

\* f"Instruction: {instruction}\nInput: {x}": a text is the sequence of its pieces
Formatted(instruction, x) == <<"Instruction: ", instruction, "\nInput: ", x>>

\* the for loop of load_examples_jsonl, lines 65-77, over the lines left
RECURSIVE load_examples_loop(_, _, _)
load_examples_loop(lines, instruction, pairs) ==
    IF lines = <<>>
    THEN IF pairs = <<>>
         THEN [kind |-> "raise", pairs |-> <<>>]
         ELSE [kind |-> "return", pairs |-> pairs]
    ELSE LET obj == Head(lines) IN
         IF obj.kind = "blank"
         THEN load_examples_loop(Tail(lines), instruction, pairs)
         ELSE IF obj.kind \in {"invalid", "scalar"}
         THEN [kind |-> "raise", pairs |-> <<>>]
         ELSE IF "user" \in obj.keys /\ "assistant" \in obj.keys
         THEN load_examples_loop(Tail(lines), instruction,
                 Append(pairs, [user |-> <<JsonValue("user", obj.id)>>,
                                assistant |-> <<JsonValue("assistant", obj.id)>>]))
         ELSE IF "input" \in obj.keys /\ "output" \in obj.keys
         THEN load_examples_loop(Tail(lines), instruction,
                 Append(pairs, [user |-> Formatted(instruction, JsonValue("input", obj.id)),
                                assistant |-> <<JsonValue("output", obj.id)>>]))
         ELSE [kind |-> "raise", pairs |-> <<>>]

\* load_examples_jsonl, lines 60-80; open() raises when the file is missing
load_examples_jsonl(fs, instruction) ==
    IF fs.kind # "file"
    THEN [kind |-> "raise", pairs |-> <<>>]
    ELSE load_examples_loop(fs.content, instruction, <<>>)

JsonlFiles ==
    {NoFile} \cup {[kind |-> "file", content |-> c] : c \in SeqsUpTo(JsonLines, MaxLines)}

InitFewShot ==
    /\ script = "few_shot"
    /\ pc = "import_sdk"
    /\ \E file \in FileArgs, show \in BOOLEAN :
          args = [instruction |-> "Summarize in 1 sentence.",
                  input |-> "Quarterly results show 18% YoY growth",
                  examples_file |-> file, model |-> "gpt-4o-mini",
                  temperature |-> F(7), show_prompt |-> show]
    /\ \E e \in ApiEnvs, f \in JsonlFiles :
          /\ (~TruthyPath(args.examples_file)) => f = NoFile
          /\ env = [e EXCEPT !.fs = f]
    /\ Idle

\* main, lines 128-132
FS_LoadExamples ==
    /\ script = "few_shot" /\ pc = "load_examples"
    /\ LET r == IF TruthyPath(args.examples_file)
                THEN load_examples_jsonl(env.fs, args.instruction)
                ELSE [kind |-> "return", pairs |-> default_examples]
       IN IF r.kind = "raise"
          THEN Exit(1, "Failed to load examples") /\ UNCHANGED examples
          ELSE /\ examples' = r.pairs
               /\ pc' = "build_messages"
               /\ UNCHANGED <<exit_status, stderr>>
    /\ UNCHANGED <<script, args, env, stdout, body, n_tokens, calls, ret, client,
                   p_vals, vi, si, messages, requests>>

FewShotSystemMessage ==
    [role |-> "system",
     content |-> <<"You are a precise assistant. Follow the format implied by examples and adhere to the instruction.">>]

\* a plausible slip: the two appends of the loop body in the other order
RECURSIVE AppendExamples_AssistantFirst(_, _)
AppendExamples_AssistantFirst(msgs, exs) ==
    IF exs = <<>> THEN msgs
    ELSE AppendExamples_AssistantFirst(
            msgs \o << [role |-> "assistant", content |-> Head(exs).assistant],
                       [role |-> "user", content |-> Head(exs).user] >>,
            Tail(exs))

\* main, lines 136-138: for ex in examples: two appends
RECURSIVE AppendExamples(_, _)
AppendExamples(msgs, exs) ==
    IF exs = <<>> THEN msgs
    ELSE AppendExamples(
            msgs \o << [role |-> "user", content |-> Head(exs).user],
                       [role |-> "assistant", content |-> Head(exs).assistant] >>,
            Tail(exs))

\* main, lines 134-142
FS_BuildMessages ==
    /\ script = "few_shot" /\ pc = "build_messages"
    /\ messages' = Append(AppendExamples(<<FewShotSystemMessage>>, examples),
                          [role |-> "user",
                           content |-> Formatted(args.instruction, args.input)])
    /\ pc' = "show_prompt"
    /\ UNCHANGED <<script, args, env, exit_status, stdout, stderr, body, n_tokens, calls,
                   ret, client, p_vals, vi, si, examples, requests>>

\* main, lines 144-148
FS_ShowPrompt ==
    /\ script = "few_shot" /\ pc = "show_prompt"
    /\ stdout' = IF args.show_prompt
                 THEN stdout \o <<[label |-> "=== Messages ===", val |-> 0]>>
                      \o [i \in 1..Len(messages) |-> [label |-> messages[i].role, val |-> i]]
                      \o <<[label |-> "================", val |-> 0]>>
                 ELSE stdout
    /\ pc' = "call_create"
    /\ UNCHANGED <<script, args, env, exit_status, stderr, body, n_tokens, calls,
                   ret, client, p_vals, vi, si, messages, examples, requests>>

\* main, lines 150-155: the create call is made
FS_Create ==
    /\ script = "few_shot" /\ pc = "call_create"
    /\ requests' = Append(requests,
          [kwargs |-> [model |-> args.model, messages |-> messages,
                       temperature |-> <<args.temperature>>, top_p |-> <<>>],
           value |-> 0, sample |-> 0, outcome |-> "pending"])
    /\ pc' = "create"
    /\ UNCHANGED <<script, args, env, exit_status, stdout, stderr, body, n_tokens, calls,
                   ret, client, p_vals, vi, si, messages, examples>>

\* main, line 160, and the return of main
FS_RequestReturns ==
    /\ script = "few_shot" /\ pc = "create"
    /\ requests' = SetOutcome(requests, "ok")
    /\ stdout' = Append(stdout, [label |-> "content", val |-> "reply"])
    /\ Exit(0, "")
    /\ UNCHANGED <<script, args, env, body, n_tokens, calls,
                   ret, client, p_vals, vi, si, messages, examples>>

\* main, lines 156-158
FS_RequestRaises ==
    /\ script = "few_shot" /\ pc = "create"
    /\ requests' = SetOutcome(requests, "raised")
    /\ Exit(2, "Request failed")
    /\ UNCHANGED <<script, args, env, stdout, body, n_tokens, calls,
                   ret, client, p_vals, vi, si, messages, examples>>

NextFewShot ==
    \/ A_ImportSDK
    \/ A_ApiKey
    \/ FS_LoadExamples
    \/ FS_BuildMessages
    \/ FS_ShowPrompt
    \/ FS_Create
    \/ FS_RequestReturns
    \/ FS_RequestRaises

SpecFewShot == InitFewShot /\ [][NextFewShot]_vars

----------------------------------------------------------------------------
(* zero_shot_prompting.py, dynamic_prompting.py, stop_sequences.py *)

MaxStops == 2

InitZeroShot ==
    /\ script = "zero_shot"
    /\ pc = "import_sdk"
    /\ \E instruction \in {"Write a friendly haiku about writing clean code.",
                           "Name three sorting algorithms."},
          temperature \in {F(7), F(0)} :
          args = [instruction |-> instruction, model |-> "gpt-4o-mini",
                  temperature |-> temperature]
    /\ env \in ApiEnvs
    /\ Idle

\* zero_shot_prompting.py main, lines 61-64
ZS_BuildMessages ==
    /\ script = "zero_shot" /\ pc = "build_messages"
    /\ messages' = << [role |-> "system",
                       content |-> <<"You are a concise, helpful assistant.">>],
                      [role |-> "user", content |-> <<args.instruction>>] >>
    /\ pc' = "call_create"
    /\ UNCHANGED <<script, args, env, exit_status, stdout, stderr, body, n_tokens, calls,
                   ret, client, p_vals, vi, si, examples, requests>>

\* dynamic_prompting.py build_prompt, lines 27-36: the five lines joined by "\n";
\* a text is the sequence of its pieces
build_prompt(role, task, style, constraints) ==
    << "You are a ", role, ".", "\n",
       "Task: ", task, ".", "\n",
       "Write the answer in ", style, ".", "\n",
       "Constraints: ", constraints, ".", "\n",
       "Be clear, actionable, and concise." >>

InitDynamic ==
    /\ script = "dynamic"
    /\ pc = "import_sdk"
    /\ \E role \in {"productivity coach", "chef"}, show \in BOOLEAN :
          args = [role |-> role, task |-> "create a morning routine for a student",
                  style |-> "numbered steps",
                  constraints |-> "limit to 5 steps; include timing; mention breaks",
                  model |-> "gpt-4o-mini", temperature |-> F(6), show_prompt |-> show]
    /\ env \in ApiEnvs
    /\ Idle

\* dynamic_prompting.py main, lines 71-78
DP_BuildMessages ==
    /\ script = "dynamic" /\ pc = "build_prompt"
    /\ LET user_prompt == build_prompt(args.role, args.task, args.style, args.constraints)
       IN /\ stdout' = IF args.show_prompt
                       THEN Append(stdout, [label |-> "=== Built Prompt ===",
                                            val |-> user_prompt])
                       ELSE stdout
          /\ messages' = << [role |-> "system",
                             content |-> <<"You craft actionable, concise plans.">>],
                            [role |-> "user", content |-> user_prompt] >>
    /\ pc' = "call_create"
    /\ UNCHANGED <<script, args, env, exit_status, stderr, body, n_tokens, calls,
                   ret, client, p_vals, vi, si, examples, requests>>

\* stop_sequences.py parse_stops, lines 67-71: None, or the non-empty parts
parse_stops(stop_str) ==
    IF ~TruthyText(stop_str) THEN None
    ELSE LET parts == SelectSeq([i \in 1..Len(Split(stop_str.val, ",")) |->
                                    Strip(Split(stop_str.val, ",")[i])],
                                LAMBDA x : x # <<>>)
         IN IF parts = <<>> THEN None ELSE Some(parts)

StopChunks == { <<>>, <<" ">>, <<"E", "N", "D">>, <<" ", "#", "#", "#">> }

StopArgs ==
    {None} \cup {Some(Join(cs)) : cs \in (SeqsUpTo(StopChunks, MaxStops) \ {<<>>})}

InitStopSequences ==
    /\ script = "stop_sequences"
    /\ pc = "import_sdk"
    /\ \E stop \in StopArgs, max_tokens \in {<<>>, <<16>>}, show \in BOOLEAN :
          args = [prompt |-> "Write a brief product spec with sections: Title, Summary, Details.",
                  model |-> "gpt-4o-mini", temperature |-> F(7), stop |-> stop,
                  max_tokens |-> max_tokens, show_prompt |-> show]
    /\ env \in ApiEnvs
    /\ Idle

\* stop_sequences.py main, lines 90-93
SS_BuildMessages ==
    /\ script = "stop_sequences" /\ pc = "build_messages"
    /\ messages' = << [role |-> "system",
                       content |-> <<"You are a helpful, concise assistant.">>],
                      [role |-> "user", content |-> <<args.prompt>>] >>
    /\ pc' = "show_prompt"
    /\ UNCHANGED <<script, args, env, exit_status, stdout, stderr, body, n_tokens, calls,
                   ret, client, p_vals, vi, si, examples, requests>>

\* stop_sequences.py main, lines 95-102
SS_ShowPrompt ==
    /\ script = "stop_sequences" /\ pc = "show_prompt"
    /\ stdout' = IF args.show_prompt
                 THEN stdout \o <<[label |-> "=== Messages ===", val |-> 0]>>
                      \o [i \in 1..Len(messages) |-> [label |-> messages[i].role, val |-> i]]
                      \o << [label |-> "Stops:", val |-> parse_stops(args.stop)],
                            [label |-> "================", val |-> 0] >>
                 ELSE stdout
    /\ pc' = "call_create"
    /\ UNCHANGED <<script, args, env, exit_status, stderr, body, n_tokens, calls,
                   ret, client, p_vals, vi, si, messages, examples, requests>>

\* the keyword arguments of client.chat.completions.create: zero_shot_prompting.py
\* 67-71, dynamic_prompting.py 81-85, stop_sequences.py 105-111
OneRequestArgs ==
    IF script = "stop_sequences"
    THEN [model |-> args.model, messages |-> messages,
          temperature |-> <<args.temperature>>, top_p |-> <<>>,
          stop |-> parse_stops(args.stop), max_tokens |-> args.max_tokens]
    ELSE [model |-> args.model, messages |-> messages,
          temperature |-> <<args.temperature>>, top_p |-> <<>>]

\* the create call is made
One_Create ==
    /\ script \in OneRequestScripts /\ pc = "call_create"
    /\ requests' = Append(requests,
          [kwargs |-> OneRequestArgs, value |-> 0, sample |-> 0, outcome |-> "pending"])
    /\ pc' = "create"
    /\ UNCHANGED <<script, args, env, exit_status, stdout, stderr, body, n_tokens, calls,
                   ret, client, p_vals, vi, si, messages, examples>>

\* the create call returns and the content is printed: zero_shot_prompting.py 76,
\* dynamic_prompting.py 90, stop_sequences.py 116-119; then main returns
One_RequestReturns ==
    /\ script \in OneRequestScripts /\ pc = "create"
    /\ requests' = SetOutcome(requests, "ok")
    /\ stdout' = IF script = "stop_sequences"
                 THEN stdout \o << [label |-> "content", val |-> "reply"],
                                   [label |-> "finish_reason", val |-> "stop"] >>
                 ELSE Append(stdout, [label |-> "content", val |-> "reply"])
    /\ Exit(0, "")
    /\ UNCHANGED <<script, args, env, body, n_tokens, calls,
                   ret, client, p_vals, vi, si, messages, examples>>

\* the create call raises: zero_shot_prompting.py 72-74, dynamic_prompting.py 86-88,
\* stop_sequences.py 112-114
One_RequestRaises ==
    /\ script \in OneRequestScripts /\ pc = "create"
    /\ requests' = SetOutcome(requests, "raised")
    /\ Exit(2, "Request failed")
    /\ UNCHANGED <<script, args, env, stdout, body, n_tokens, calls,
                   ret, client, p_vals, vi, si, messages, examples>>

----------------------------------------------------------------------------
(* The six scripts that call the API *)

InitApi ==
    InitSweep \/ InitFewShot \/ InitZeroShot \/ InitDynamic \/ InitStopSequences

NextApi ==
    \/ A_ImportSDK
    \/ A_ApiKey
    \/ S_ParseSweep
    \/ S_BuildMessages
    \/ S_NextValue
    \/ S_NextSample
    \/ S_RequestReturns
    \/ S_RequestRaises
    \/ FS_LoadExamples
    \/ FS_BuildMessages
    \/ FS_ShowPrompt
    \/ FS_Create
    \/ FS_RequestReturns
    \/ FS_RequestRaises
    \/ ZS_BuildMessages
    \/ DP_BuildMessages
    \/ SS_BuildMessages
    \/ SS_ShowPrompt
    \/ One_Create
    \/ One_RequestReturns
    \/ One_RequestRaises

SpecApi == InitApi /\ [][NextApi]_vars

----------------------------------------------------------------------------
(* All the scripts *)

Init == InitTokens \/ InitApi

Next == NextTokens \/ NextApi

Spec == Init /\ [][Next]_vars

----------------------------------------------------------------------------
(* Properties of the token-counting script *)

\* the text and the result of the one count_tokens invocation of this process
Counted == calls # <<>>
CountedText == calls[1].text
CountRaised == (script = "call count_tokens" /\ pc = "raised")
               \/ (script = "tokens" /\ pc = "exited" /\ exit_status # <<0>>)
CountValue == IF script = "tokens" THEN n_tokens ELSE ret.n

\* C2: for every non-empty text and every model name, count_tokens returns an
\* integer >= 1, with the exact tokenizer as well as with the heuristic.
C2_CountAtLeastOne ==
    (Counted /\ CountedText # <<>>) => (~CountRaised /\ CountValue >= 1)

C2_Witness ==
    /\ script = "call count_tokens" /\ pc = "returned"
    /\ env.tiktoken = "ImportError"
    /\ Len(CountedText) = 2
    /\ ret.n = 1

\* C3: without the exact tokenizer, count_tokens(t, m) is max(1, floor(len(t)/4))
\* for every text t, whatever the model name m; 11 characters give 2, and 4
\* characters or fewer give 1.
C3_HeuristicValue ==
    (Counted /\ env.tiktoken # "ok") =>
       /\ ~CountRaised
       /\ LET len == Len(CountedText)
              q == CHOOSE k \in 0..len : 4 * k <= len /\ len < 4 * (k + 1)
          IN /\ CountValue = (IF q < 1 THEN 1 ELSE q)
             /\ len = 11 => CountValue = 2
             /\ len <= 4 => CountValue = 1

C3_Witness ==
    /\ script = "call count_tokens" /\ pc = "returned"
    /\ env.tiktoken = "ImportError"
    /\ Len(CountedText) = 11
    /\ ret.n = 2

\* C4: count_tokens never raises because of the exact tokenizer: when the import,
\* the encoding lookup or the encoding of the text fails, the call returns the
\* heuristic value, and the script reports a token count and exits with status 0.
C4_TokenizerFailureDegrades ==
    (Counted /\ env.tiktoken # "ok") =>
       /\ script = "call count_tokens" =>
             /\ pc = "returned"
             /\ ret.kind = "return"
             /\ 4 * ret.n <= Max(4, Len(CountedText))
             /\ Max(4, Len(CountedText)) < 4 * (ret.n + 1)
       /\ script = "tokens" =>
             /\ pc \in {"show_sample", "report", "exited"}
             /\ stderr = <<>>
             /\ pc = "exited" =>
                   /\ exit_status = <<0>>
                   /\ stdout # <<>>
                   /\ stdout[Len(stdout)].label = "Approx tokens:"
                   /\ stdout[Len(stdout)].n >= 1

C4_Witness ==
    /\ script = "tokens" /\ pc = "exited"
    /\ env.tiktoken = "encode_error"
    /\ exit_status = <<0>>
    /\ stdout[Len(stdout)].label = "Approx tokens:"

\* the input body is empty: no text and no file, or a file with nothing decodable
EmptyInput ==
    \/ ~TruthyPath(args.file) /\ (~args.text.some \/ Len(args.text.val) = 0)
    \/ /\ TruthyPath(args.file)
       /\ env.fs.kind = "file"
       /\ \A i \in 1..Len(env.fs.content) : env.fs.content[i] = Undecodable

\* C5: with an empty input body the script never invokes count_tokens, exits with
\* a non-zero status and an error message, and prints nothing to standard output.
C5_EmptyInputRejected ==
    (script = "tokens" /\ EmptyInput) =>
       /\ calls = <<>>
       /\ stdout = <<>>
       /\ pc \in {"load_text", "check_body", "exited"}
       /\ pc = "exited" => (exit_status # <<0>> /\ stderr # <<>>)

C5_Witness ==
    /\ script = "tokens" /\ pc = "exited"
    /\ TruthyPath(args.file) /\ env.fs.kind = "file" /\ Len(env.fs.content) = 2
    /\ args.text.some
    /\ EmptyInput
    /\ exit_status = <<1>>

\* C6: when --file names a path that does not exist, the script exits with a
\* non-zero status before count_tokens is invoked and before anything is
\* printed, also when a non-empty --text is given with it.
C6_MissingFileRejected ==
    (script = "tokens" /\ TruthyPath(args.file) /\ env.fs.kind = "missing") =>
       /\ calls = <<>>
       /\ stdout = <<>>
       /\ pc \in {"load_text", "exited"}
       /\ pc = "exited" => (exit_status # <<0>> /\ stderr # <<>>)

C6_Witness ==
    /\ script = "tokens" /\ pc = "exited"
    /\ TruthyPath(args.file) /\ env.fs.kind = "missing"
    /\ TruthyText(args.text)
    /\ exit_status = <<1>>

\* C9: get_encoding_name returns an encoding name for every model name without
\* raising, and a name with none of the known substrings gives cl100k_base.
C9_ResolutionTotal ==
    (script = "call get_encoding_name" /\ pc # "call") =>
       /\ pc = "returned"
       /\ ret.kind = "return"
       /\ ret.enc \in {"cl100k_base", "o200k_base"}
       /\ (\A k \in KnownSubstrings : ~Contains(args.model, k)) => ret.enc = "cl100k_base"

C9_Witness ==
    /\ script = "call get_encoding_name" /\ pc = "returned"
    /\ args.model = <<"c","l","a","u","d","e">>
    /\ ret.enc = "cl100k_base"

----------------------------------------------------------------------------
(* Properties of the sweep scripts and of the few-shot script *)

\* v lies in [0.0, 1.0]
InUnitInterval(v) == ~v.nan /\ 0 <= v.t /\ v.t <= 10

\* the top_p values this run of top_p.py was given to use: the numerals of
\* --sweep when it is set, the value of --top-p otherwise
SuppliedTopP ==
    IF TruthyText(args.sweep)
    THEN LET chunks == Split(args.sweep.val, ",") IN
         {ParseFloat(Strip(chunks[i])).val :
             i \in {j \in 1..Len(chunks) : ParseFloat(Strip(chunks[j])).kind = "return"}}
    ELSE {args.top_p}

\* C1: top_p.py rejects a top_p value outside [0.0, 1.0] before any request is
\* issued, given by --top-p or in the --sweep list; every request issued
\* carries a top_p within [0.0, 1.0].
C1_TopPInRange ==
    script = "top_p" =>
       /\ \A i \in 1..Len(requests) : InUnitInterval(requests[i].kwargs.top_p[1])
       /\ (\E v \in SuppliedTopP : ~InUnitInterval(v)) =>
             /\ requests = <<>>
             /\ pc = "exited" => exit_status # <<0>>

\* the part of C1 the code does implement: an out-of-range value in --sweep
C1_SweepValuesInRange ==
    (script = "top_p" /\ TruthyText(args.sweep)) =>
       /\ \A i \in 1..Len(requests) : InUnitInterval(requests[i].kwargs.top_p[1])
       /\ (\E v \in SuppliedTopP : ~InUnitInterval(v)) =>
             /\ requests = <<>>
             /\ pc = "exited" => exit_status # <<0>>

\* the parameter under sweep of a request
Swept(r) == IF script = "top_p" THEN r.kwargs.top_p[1] ELSE r.kwargs.temperature[1]

\* C7: in the temperature and top-p sweeps the requests are issued one at a
\* time in the order of the sweep values, all N samples of a value before the
\* next value, each completed before the next is issued; after a request that
\* fails no request is issued and the process exits with a non-zero status.
C7_SequentialSweep ==
    script \in SweepScripts =>
       /\ \A i \in 1..Len(requests) :
             LET r == requests[i] IN
             /\ r.value \in 1..Len(p_vals)
             /\ r.sample \in 0..(args.n - 1)
             /\ Swept(r) = p_vals[r.value]
             /\ i = 1 => (r.value = 1 /\ r.sample = 0)
             /\ i > 1 =>
                   LET q == requests[i - 1] IN
                   /\ q.outcome = "ok"
                   /\ IF q.sample + 1 < args.n
                      THEN r.value = q.value /\ r.sample = q.sample + 1
                      ELSE r.value = q.value + 1 /\ r.sample = 0
       /\ (requests # <<>> /\ requests[Len(requests)].outcome = "raised") =>
             (pc = "exited" /\ exit_status # <<0>> /\ exit_status # Running)
       /\ (requests # <<>> /\ requests[Len(requests)].outcome = "pending") =>
             pc = "create"

C7_Witness ==
    /\ script = "top_p" /\ pc = "exited"
    /\ args.n = 2
    /\ Len(requests) = 3
    /\ requests[3].value = 2
    /\ requests[3].outcome = "raised"
    /\ exit_status = <<2>>

\* C8: the few-shot script sends, for k example pairs, 2k + 2 messages: the
\* system message, then for each example in file order its user message and
\* its assistant message, then the live query as the last user message.
FewShotLines == SelectSeq(env.fs.content, LAMBDA l : l.kind # "blank")

ExpectedPairCount ==
    IF TruthyPath(args.examples_file) THEN Len(FewShotLines) ELSE 3

ExpectedUser(i) ==
    IF ~TruthyPath(args.examples_file) THEN default_examples[i].user
    ELSE IF {"user", "assistant"} \subseteq FewShotLines[i].keys
    THEN <<JsonValue("user", FewShotLines[i].id)>>
    ELSE <<"Instruction: ", args.instruction, "\nInput: ",
           JsonValue("input", FewShotLines[i].id)>>

ExpectedAssistant(i) ==
    IF ~TruthyPath(args.examples_file) THEN default_examples[i].assistant
    ELSE IF {"user", "assistant"} \subseteq FewShotLines[i].keys
    THEN <<JsonValue("assistant", FewShotLines[i].id)>>
    ELSE <<JsonValue("output", FewShotLines[i].id)>>

C8_FewShotMessageOrder ==
    (script = "few_shot" /\ requests # <<>>) =>
       LET m == requests[1].kwargs.messages
           k == ExpectedPairCount
       IN /\ Len(requests) = 1
          /\ k >= 1
          /\ Len(m) = 2 * k + 2
          /\ m[1].role = "system"
          /\ \A i \in 1..k :
                /\ m[2 * i].role = "user"
                /\ m[2 * i].content = ExpectedUser(i)
                /\ m[2 * i + 1].role = "assistant"
                /\ m[2 * i + 1].content = ExpectedAssistant(i)
          /\ m[Len(m)].role = "user"
          /\ m[Len(m)].content =
                <<"Instruction: ", args.instruction, "\nInput: ", args.input>>

C8_Witness ==
    /\ script = "few_shot" /\ pc = "exited" /\ exit_status = <<0>>
    /\ TruthyPath(args.examples_file)
    /\ Len(env.fs.content) = 2
    /\ env.fs.content[1].keys = {"input", "output"} /\ env.fs.content[1].id = 2
    /\ env.fs.content[2].keys = {"user", "assistant"} /\ env.fs.content[2].id = 1
    /\ Len(requests[1].kwargs.messages) = 6

\* C10: the message list of a sweep is not changed after it is built: every
\* request of a run carries the same two messages, system then user, and the
\* same model (and, in top_p.py, the same temperature); only the parameter
\* under sweep differs.
C10_MessagesUnchanged ==
    script \in SweepScripts =>
       /\ \A i \in 1..Len(requests) :
             LET m == requests[i].kwargs.messages IN
             /\ Len(m) = 2
             /\ m[1].role = "system"
             /\ m[1].content = "You are a helpful, concise assistant."
             /\ m[2].role = "user"
             /\ m[2].content = args.prompt
             /\ m = requests[1].kwargs.messages
             /\ requests[i].kwargs.model = requests[1].kwargs.model
             /\ script = "top_p" =>
                   requests[i].kwargs.temperature = requests[1].kwargs.temperature
       /\ requests # <<>> => messages = requests[1].kwargs.messages

C10_Witness ==
    /\ script = "temperature" /\ pc = "exited" /\ exit_status = <<0>>
    /\ Len(requests) = 4
    /\ requests[1].kwargs.temperature # requests[4].kwargs.temperature
    /\ requests[4].kwargs.messages = requests[1].kwargs.messages

----------------------------------------------------------------------------
(* Properties of two calls of a function of the token-counting script *)

\* C11: get_encoding_name gives the same encoding for a model name and for
\* the same name with the letter case of some of its characters changed.
C11_ResolutionCaseInsensitive ==
    (script = "call get_encoding_name twice" /\ pc # "call") =>
       /\ pc = "returned"
       /\ ret.kind = "return" /\ ret.kind2 = "return"
       /\ ret.enc = ret.enc2

C11_Witness ==
    /\ script = "call get_encoding_name twice" /\ pc = "returned"
    /\ args.model = <<"G","P","T","-","4">>
    /\ args.model2 = <<"g","p","t","-","4">>
    /\ ret.enc = ret.enc2

\* C12: without the exact tokenizer, count_tokens is monotone in the length of
\* the text: len(t1) <= len(t2) implies count_tokens(t1, m) <= count_tokens(t2, m).
C12_HeuristicMonotone ==
    (script = "call count_tokens twice" /\ pc # "call" /\ env.tiktoken # "ok") =>
       /\ pc = "returned"
       /\ Len(args.text.val) <= Len(args.text2.val) => ret.n <= ret.n2

C12_Witness ==
    /\ script = "call count_tokens twice" /\ pc = "returned"
    /\ env.tiktoken = "ImportError"
    /\ Len(args.text.val) = 7 /\ Len(args.text2.val) = 8
    /\ ret.n = 1 /\ ret.n2 = 2

----------------------------------------------------------------------------
(* Properties of the six scripts that call the API *)

ContentLines == SelectSeq(stdout, LAMBDA l : l.label = "content")
Succeeded == SelectSeq(requests, LAMBDA r : r.outcome = "ok")

\* C13: in every API script, when the SDK cannot be imported or OPENAI_API_KEY
\* is unset or empty, the process exits with status 1 with no client
\* constructed and no request issued; a request that raises makes the process
\* exit with status 2 with no response content printed for it; status 0 is
\* reached only after every request issued has succeeded.
C13_ExitStatuses ==
    script \in ApiScripts =>
       /\ (~env.sdk \/ ~env.api_key.some \/ env.api_key.val = "") =>
             /\ client = FALSE
             /\ requests = <<>>
             /\ pc \in {"import_sdk", "api_key", "exited"}
             /\ pc = "exited" => exit_status = <<1>>
       /\ \A i \in 1..Len(requests) :
             requests[i].outcome = "raised" => (pc = "exited" /\ exit_status = <<2>>)
       /\ Len(ContentLines) = Len(Succeeded)
       /\ exit_status = <<0>> =>
             \A i \in 1..Len(requests) : requests[i].outcome = "ok"

C13_Witness ==
    /\ script = "stop_sequences" /\ pc = "exited"
    /\ env.sdk /\ env.api_key.some /\ env.api_key.val = ""
    /\ exit_status = <<1>>
    /\ client = FALSE /\ requests = <<>>

====
